---- MODULE Spec2Model ----
(***************************************************************************)
(* A model of the numeric pipeline of helper_functions.py: load_file,      *)
(* baseline_subtract, sweep_summary and the initial-guess / model          *)
(* selection part of frequency_histogram.  Every function is a stateless   *)
(* transform of a table, so each gets a specification of its own whose     *)
(* Init draws the inputs from bounded sets and whose actions are calls.    *)
(*                                                                         *)
(* Floating point numbers are modelled in exact arithmetic, as rationals   *)
(* <<numerator, denominator>> in lowest terms with a positive denominator. *)
(***************************************************************************)
EXTENDS Integers, Sequences, FiniteSets

VARIABLES
    pc,         \* "start", then how the last call ended
    calls,      \* the number of calls made
    df,         \* the table handed to (and modified by) the call
    df0,        \* the table as it was before the first call
    window,     \* the window argument
    param,      \* sweep_summary's param argument
    summaryDf,  \* sweep_summary's result: sweep -> row of the summary table
    path,       \* the text of the file load_file reads
    loaded,     \* the table load_file returns
    nbins,      \* frequency_histogram's nbins argument
    ngauss,     \* frequency_histogram's ngauss argument
    fit         \* what frequency_histogram hands to curve_fit

vars == <<pc, calls, df, df0, window, param, summaryDf, path, loaded,
          nbins, ngauss, fit>>

loadVars == <<path, loaded>>
histVars == <<nbins, ngauss, fit>>

----------------------------------------------------------------------------
(* Bounds of the model.                                                    *)

MaxRows == 3
MaxCalls == 2
MaxSweeps == 2
MaxLines == 5
MaxSamples == 2
MaxGauss == 4
MaxBins == 9

----------------------------------------------------------------------------
(* Exact arithmetic.                                                       *)

Abs(x) == IF x < 0 THEN -x ELSE x

RECURSIVE GCD(_, _)
GCD(a, b) == IF b = 0 THEN a ELSE GCD(b, a % b)

Rat(n, d) ==
    LET g == GCD(Abs(n), Abs(d))
        s == IF d < 0 THEN -1 ELSE 1
    IN  <<(s * n) \div g, (s * d) \div g>>

R(n) == <<n, 1>>
RAdd(a, b) == Rat(a[1] * b[2] + b[1] * a[2], a[2] * b[2])
RSub(a, b) == Rat(a[1] * b[2] - b[1] * a[2], a[2] * b[2])
RMul(a, b) == Rat(a[1] * b[1], a[2] * b[2])
RDiv(a, b) == Rat(a[1] * b[2], a[2] * b[1])
RLt(a, b) == a[1] * b[2] < b[1] * a[2]
RLe(a, b) == a[1] * b[2] <= b[1] * a[2]
RAbs(a) == <<Abs(a[1]), a[2]>>
RZero == R(0)
ROne == R(1)

RECURSIVE RSum(_)
RSum(s) == IF s = <<>> THEN RZero ELSE RAdd(s[1], RSum(Tail(s)))

(* Series.mean() of a non-empty sequence of values.                        *)
Mean(s) == RDiv(RSum(s), R(Len(s)))

----------------------------------------------------------------------------
(* Tables: a DataFrame is a sequence of rows, a row a record of columns.   *)

RECURSIVE SortSeq(_)
SortSeq(S) ==
    IF S = {} THEN <<>>
    ELSE LET m == CHOOSE x \in S : \A y \in S : x <= y
         IN  <<m>> \o SortSeq(S \ {m})

RECURSIVE Flatten(_)
Flatten(ss) == IF ss = <<>> THEN <<>> ELSE ss[1] \o Flatten(Tail(ss))

Column(d, c) == [k \in DOMAIN d |-> d[k][c]]

(* df.query('ti >= @window[0] and ti < @window[1]')                        *)
QueryInclusiveEnd(d, w) ==
    SelectSeq(d, LAMBDA r : r.ti >= w[1] /\ r.ti <= w[2])
Query(d, w) == SelectSeq(d, LAMBDA r : r.ti >= w[1] /\ r.ti < w[2])

(* df.groupby('sweep'): the group keys in ascending order, and the rows of *)
(* a group in the order they have in the table.                            *)
GroupKeys(d) == SortSeq({d[k].sweep : k \in DOMAIN d})
Group(d, s) == SelectSeq(d, LAMBDA r : r.sweep = s)

----------------------------------------------------------------------------
(* baseline_subtract(df, window)                                           *)

(* baselines: the Series sweep -> mean of i over the window's rows; a      *)
(* sweep with no row in the window has no entry.                           *)
Baselines(d, w) ==
    LET q == Query(d, w)
    IN  [s \in {q[k].sweep : k \in DOMAIN q} |-> Mean(Column(Group(q, s), "i"))]

(* iblsub: per group in key order, the group's i minus its baseline        *)
Iblsub(d, w) ==
    LET keys == GroupKeys(d)
        b == Baselines(d, w)
    IN  [n \in DOMAIN keys |->
            LET g == Column(Group(d, keys[n]), "i")
            IN  [k \in DOMAIN g |-> RSub(g[k], b[keys[n]])]]

(* baselines[name] raises KeyError for a sweep without a row in the window *)
BaselineKeyError(d, w) ==
    \E k \in DOMAIN d : d[k].sweep \notin DOMAIN Baselines(d, w)

(* df['i'] = flatList assigns by position                                  *)
AssignIShifted(d, flat) ==
    [k \in DOMAIN d |-> [d[k] EXCEPT !.i = flat[(k % Len(d)) + 1]]]
AssignI(d, flat) == [k \in DOMAIN d |-> [d[k] EXCEPT !.i = flat[k]]]

BaselineSubtracted(d, w) == AssignI(d, Flatten(Iblsub(d, w)))

BaselineRows ==
    { [sweep |-> s, ti |-> t, tp |-> t, i |-> R(v), p |-> -5 * s] :
        s \in 1..MaxSweeps, t \in {0, 1}, v \in {0, 1} }

BaselineWindows == { <<0, 1>>, <<0, 2>>, <<1, 2>> }

InitBaseline ==
    /\ pc = "start"
    /\ calls = 0
    /\ df \in UNION { [1..n -> BaselineRows] : n \in 1..MaxRows }
    /\ df0 = df
    /\ window \in BaselineWindows
    /\ param = ""
    /\ summaryDf = <<>>
    /\ path = <<>>
    /\ loaded = <<>>
    /\ nbins = 0
    /\ ngauss = 0
    /\ fit = <<>>

CallBaselineReturns ==
    /\ calls < MaxCalls
    /\ pc \in {"start", "returned"}
    /\ ~BaselineKeyError(df, window)
    /\ df' = BaselineSubtracted(df, window)
    /\ pc' = "returned"
    /\ calls' = calls + 1
    /\ UNCHANGED <<df0, window, param, summaryDf, loadVars, histVars>>

CallBaselineRaises ==
    /\ calls < MaxCalls
    /\ pc \in {"start", "returned"}
    /\ BaselineKeyError(df, window)
    /\ pc' = "raised"
    /\ calls' = calls + 1
    /\ UNCHANGED <<df, df0, window, param, summaryDf, loadVars, histVars>>

NextBaseline == CallBaselineReturns \/ CallBaselineRaises

SpecBaseline == InitBaseline /\ [][NextBaseline]_vars

----------------------------------------------------------------------------
(* What the claims say of baseline_subtract.                               *)

(* the rows of sweep s inside the window, as a set of positions            *)
WindowRowsOf(d, w, s) ==
    {k \in DOMAIN d : d[k].sweep = s /\ w[1] <= d[k].ti /\ d[k].ti < w[2]}

RECURSIVE RSumOver(_, _)
RSumOver(d, K) ==
    IF K = {} THEN RZero
    ELSE LET k == CHOOSE x \in K : TRUE
         IN  RAdd(d[k].i, RSumOver(d, K \ {k}))

WindowMeanOf(d, w, s) ==
    RDiv(RSumOver(d, WindowRowsOf(d, w, s)), R(Cardinality(WindowRowsOf(d, w, s))))

GroupedAscending(d) == \A k \in 1..(Len(d) - 1) : d[k].sweep <= d[k + 1].sweep

RowsCorrected ==
    \A k \in DOMAIN df :
        /\ df[k].i = RSub(df0[k].i, WindowMeanOf(df0, window, df0[k].sweep))
        /\ df[k].ti = df0[k].ti /\ df[k].tp = df0[k].tp
        /\ df[k].p = df0[k].p /\ df[k].sweep = df0[k].sweep

\* C3: on a table grouped by ascending sweep, one call replaces each row's i
\* by its original i minus the mean of the original i over the same sweep's
\* rows with window[0] <= ti < window[1]; afterwards that window mean is zero
\* in every sweep. The baseline is computed from the rows of the sweep alone.
C3_BaselinePerSweep ==
    (pc = "returned" /\ calls = 1 /\ GroupedAscending(df0)) =>
        /\ Len(df) = Len(df0)
        /\ RowsCorrected
        /\ \A k \in DOMAIN df : WindowMeanOf(df, window, df[k].sweep) = RZero

C3_Witness ==
    /\ pc = "returned" /\ calls = 1 /\ GroupedAscending(df0)
    /\ Len(df0) = 3
    /\ df0[1].sweep = 1 /\ df0[3].sweep = 2
    /\ \E k \in DOMAIN df0 : df0[k].ti = window[2]
    /\ \E k \in DOMAIN df0 : df[k].i # df0[k].i

\* C9: whatever the order of the rows, each row ends with its own original i
\* minus the baseline of its own sweep, the other columns unchanged.
C9_WrittenBackToOwnRow ==
    (pc = "returned" /\ calls = 1) => (Len(df) = Len(df0) /\ RowsCorrected)

\* C10: after one call with window W, further calls with the same W leave the
\* table unchanged.
C10_Idempotent == [][(pc = "returned" /\ calls >= 1) => df' = df]_vars

(* The same holds of the tables grouped by ascending sweep.                *)
IdempotentWhenGrouped ==
    [][(pc = "returned" /\ calls >= 1 /\ GroupedAscending(df0)) => df' = df]_vars

----------------------------------------------------------------------------
(* sweep_summary(df, window, param)                                        *)

(* The time (ms) at which the current is read for the inactivation ratio.  *)
THalf == 250

(* Floating point division: x/0 is nan, inf or -inf, written with a zero   *)
(* denominator; it raises nothing.                                         *)
NaN == <<0, 0>>
FDiv(a, b) ==
    IF b[1] = 0
    THEN (IF a[1] = 0 THEN NaN ELSE IF a[1] > 0 THEN <<1, 0>> ELSE <<-1, 0>>)
    ELSE RDiv(a, b)

RECURSIVE RMax(_)
RMax(s) ==
    IF Len(s) = 1 THEN s[1]
    ELSE LET m == RMax(Tail(s)) IN IF RLt(m, s[1]) THEN s[1] ELSE m

RECURSIVE RMin(_)
RMin(s) ==
    IF Len(s) = 1 THEN s[1]
    ELSE LET m == RMin(Tail(s)) IN IF RLt(s[1], m) THEN s[1] ELSE m

RECURSIVE RInsert(_, _)
RInsert(x, s) ==
    IF s = <<>> THEN <<x>>
    ELSE IF RLe(x, s[1]) THEN <<x>> \o s
    ELSE <<s[1]>> \o RInsert(x, Tail(s))

RECURSIVE RSort(_)
RSort(s) == IF s = <<>> THEN <<>> ELSE RInsert(s[1], RSort(Tail(s)))

(* Series.median(): the middle value, or the mean of the two middle values *)
Median(s) ==
    LET t == RSort(s)
        n == Len(t)
    IN  IF n % 2 = 1 THEN t[(n + 1) \div 2]
        ELSE RDiv(RAdd(t[n \div 2], t[n \div 2 + 1]), R(2))

(* Series.std() squared: the sample variance (ddof = 1), nan for one value *)
Variance(s) ==
    LET m == Mean(s)
        sq == [k \in DOMAIN s |-> RMul(RSub(s[k], m), RSub(s[k], m))]
    IN  FDiv(RSum(sq), R(Len(s) - 1))

RatColumn(d, c) == [k \in DOMAIN d |-> R(d[k][c])]

(* groups = subsetDf.groupby('sweep'): only the sweeps with a row in the   *)
(* window                                                                  *)
SummaryGroups(d, w) == GroupKeys(Query(d, w))

(* grp['i'][grp['ti'] == 250.0]                                            *)
AtTHalf(d, s) == Column(SelectSeq(Group(d, s), LAMBDA r : r.ti = THalf), "i")

(* a[idx] of an array of n elements: the position (from 1), 0 when out of  *)
(* range; a negative idx counts from the end                               *)
PyPos(idx, n) ==
    IF 0 <= idx /\ idx < n THEN idx + 1
    ELSE IF -n <= idx /\ idx < 0 THEN idx + n + 1
    ELSE 0

(* The loop filling i_thalf raises when a sweep of df has no or several    *)
(* rows at THalf (a Series that is no scalar), or when sweep - 1 is no     *)
(* index of an array with one element per group of the window.            *)
IThalfRaises(d, w) ==
    LET n == Len(SummaryGroups(d, w))
        keys == GroupKeys(d)
    IN  \E j \in DOMAIN keys :
            \/ Len(AtTHalf(d, keys[j])) # 1
            \/ PyPos(keys[j] - 1, n) = 0

(* i_thalf after the loop: zeros, overwritten in ascending sweep order     *)
IThalf(d, w) ==
    LET n == Len(SummaryGroups(d, w))
        keys == GroupKeys(d)
    IN  [pos \in 1..n |->
            LET hits == {j \in DOMAIN keys : PyPos(keys[j] - 1, n) = pos}
            IN  IF hits = {} THEN RZero
                ELSE LET last == CHOOSE j \in hits : \A h \in hits : h <= j
                     IN  AtTHalf(d, keys[last])[1]]

(* groups[c].f() as a Series: sweep -> f of the column over the window's   *)
(* rows of the sweep                                                       *)
IMean(d, w) ==
    LET q == Query(d, w)
    IN  [s \in {q[k].sweep : k \in DOMAIN q} |-> Mean(Column(Group(q, s), "i"))]
IMin(d, w) ==
    LET q == Query(d, w)
    IN  [s \in {q[k].sweep : k \in DOMAIN q} |-> RMin(Column(Group(q, s), "i"))]
IMax(d, w) ==
    LET q == Query(d, w)
    IN  [s \in {q[k].sweep : k \in DOMAIN q} |-> RMax(Column(Group(q, s), "i"))]
IVar(d, w) ==
    LET q == Query(d, w)
    IN  [s \in {q[k].sweep : k \in DOMAIN q} |-> Variance(Column(Group(q, s), "i"))]

(* np.abs(groups['p'].median())                                            *)
PressureSigned(d, w) ==
    LET q == Query(d, w)
    IN  [s \in {q[k].sweep : k \in DOMAIN q} |-> Median(RatColumn(Group(q, s), "p"))]
Pressure(d, w) ==
    LET q == Query(d, w)
    IN  [s \in {q[k].sweep : k \in DOMAIN q} |->
            RAbs(Median(RatColumn(Group(q, s), "p")))]

(* the values of a Series, in the order of its index                       *)
Values(f) == LET keys == SortSeq(DOMAIN f) IN [k \in DOMAIN keys |-> f[keys[k]]]
AbsValues(f) == LET v == Values(f) IN [k \in DOMAIN v |-> RAbs(v[k])]

(* the position of sweep s in the summary table                            *)
PosOf(f, s) == CHOOSE k \in 1..Cardinality(DOMAIN f) : SortSeq(DOMAIN f)[k] = s

(* param == 'Mean'; stdev_i is kept as its square                          *)
MeanSummaryNoAbs(d, w) ==
    LET iMean == IMean(d, w)
    IN  [s \in DOMAIN iMean |->
            [pressure |-> Pressure(d, w)[s],
             mean_i |-> iMean[s],
             mean_norm_i |-> FDiv(iMean[s], RMax(Values(iMean))),
             stdev_i_squared |-> IVar(d, w)[s]]]
MeanSummary(d, w) ==
    LET iMean == IMean(d, w)
    IN  [s \in DOMAIN iMean |->
            [pressure |-> Pressure(d, w)[s],
             mean_i |-> iMean[s],
             mean_norm_i |-> FDiv(RAbs(iMean[s]), RMax(AbsValues(iMean))),
             stdev_i_squared |-> IVar(d, w)[s]]]

(* param == 'Min'                                                          *)
MinSummary(d, w) ==
    LET iMin == IMin(d, w)
        i_thalf == IThalf(d, w)
    IN  [s \in DOMAIN iMin |->
            [pressure |-> Pressure(d, w)[s],
             min_i |-> iMin[s],
             min_norm_i |-> FDiv(iMin[s], RMin(Values(iMin))),
             i_thalf |-> i_thalf[PosOf(iMin, s)],
             inactivation |-> FDiv(i_thalf[PosOf(iMin, s)], iMin[s])]]

(* any other param                                                         *)
MaxSummary(d, w) ==
    LET iMax == IMax(d, w)
    IN  [s \in DOMAIN iMax |->
            [pressure |-> Pressure(d, w)[s],
             max_i |-> iMax[s],
             max_norm_i |-> FDiv(iMax[s], RMax(Values(iMax)))]]

SummaryOf(d, w, prm) ==
    IF prm = "Mean" THEN MeanSummary(d, w)
    ELSE IF prm = "Min" THEN MinSummary(d, w)
    ELSE MaxSummary(d, w)

(* The inputs: recordings of 1..MaxSweeps sweeps, each sweep sampled at    *)
(* the same two times, the sweeps numbered from 1 (as load_file numbers    *)
(* them) or from 2.  SummaryCurrents holds the currents of the first and   *)
(* of the second sample.                                                   *)
SummaryGrids == { <<0, THalf>>, <<THalf, 300>>, <<0, 300>>, <<THalf, THalf>> }
SummaryCurrents == << {-2, -1, 1, 2}, {-1, 2} >>
SummaryProtocols ==
    { [s \in 1..MaxSweeps |-> <<-10 * s, -10 * s>>],
      [s \in 1..MaxSweeps |-> <<0, -10 * s>>] }
SummaryWindows == { <<0, 300>>, <<THalf, 400>>, <<0, THalf>> }
SummaryParams == {"Max", "Min", "Mean", "None"}

SummaryTable(n, first, grid, cur, prot) ==
    [k \in 1..(2 * n) |->
        LET s == (k + 1) \div 2
            t == ((k + 1) % 2) + 1
        IN  [sweep |-> first + s - 1, ti |-> grid[t], tp |-> grid[t],
             i |-> R(cur[k]), p |-> prot[s][t]]]

InitSummary ==
    /\ pc = "start"
    /\ calls = 0
    /\ df \in
        UNION { { SummaryTable(n, first, grid, cur, prot) :
                    first \in {1, 2}, grid \in SummaryGrids,
                    cur \in { c \in [1..(2 * n) -> SummaryCurrents[1]] :
                                 \A k \in 1..n : c[2 * k] \in SummaryCurrents[2] },
                    prot \in SummaryProtocols } : n \in 1..MaxSweeps }
    /\ df0 = df
    /\ window = <<0, 0>>
    /\ param = ""
    /\ summaryDf = <<>>
    /\ path = <<>>
    /\ loaded = <<>>
    /\ nbins = 0
    /\ ngauss = 0
    /\ fit = <<>>

CallSummaryRaises(w, prm) ==
    /\ pc = "start"
    /\ IThalfRaises(df, w)
    /\ pc' = "raised"
    /\ calls' = calls + 1
    /\ window' = w
    /\ param' = prm
    /\ UNCHANGED <<df, df0, summaryDf, loadVars, histVars>>

CallSummaryReturnsNone(w, prm) ==
    /\ pc = "start"
    /\ ~IThalfRaises(df, w)
    /\ prm = "None"
    /\ pc' = "returned None"
    /\ calls' = calls + 1
    /\ window' = w
    /\ param' = prm
    /\ UNCHANGED <<df, df0, summaryDf, loadVars, histVars>>

CallSummaryReturns(w, prm) ==
    /\ pc = "start"
    /\ ~IThalfRaises(df, w)
    /\ prm # "None"
    /\ summaryDf' = SummaryOf(df, w, prm)
    /\ pc' = "returned"
    /\ calls' = calls + 1
    /\ window' = w
    /\ param' = prm
    /\ UNCHANGED <<df, df0, loadVars, histVars>>

NextSummary ==
    \E w \in SummaryWindows, prm \in SummaryParams :
        \/ CallSummaryRaises(w, prm)
        \/ CallSummaryReturnsNone(w, prm)
        \/ CallSummaryReturns(w, prm)

SpecSummary == InitSummary /\ [][NextSummary]_vars

----------------------------------------------------------------------------
(* What the claims say of sweep_summary.                                   *)

SweepsOf(d) == {d[k].sweep : k \in DOMAIN d}

(* the column holding the statistic, and the column normalising it         *)
StatI(s) ==
    IF param = "Mean" THEN summaryDf[s].mean_i
    ELSE IF param = "Min" THEN summaryDf[s].min_i
    ELSE summaryDf[s].max_i
NormI(s) ==
    IF param = "Mean" THEN summaryDf[s].mean_norm_i
    ELSE IF param = "Min" THEN summaryDf[s].min_norm_i
    ELSE summaryDf[s].max_norm_i

IsMaxOver(v, d, K) ==
    (\E k \in K : d[k].i = v) /\ (\A k \in K : RLe(d[k].i, v))
IsMinOver(v, d, K) ==
    (\E k \in K : d[k].i = v) /\ (\A k \in K : RLe(v, d[k].i))

\* C4: for param Max, Min and Mean the column max_i, min_i or mean_i of a
\* sweep is the maximum, minimum or mean of the sweep's i over exactly the
\* rows with window[0] <= ti < window[1].
C4_WindowStatistic ==
    (pc = "returned" /\ param \in {"Max", "Min", "Mean"}) =>
        \A s \in DOMAIN summaryDf :
            LET K == WindowRowsOf(df, window, s)
            IN  /\ K # {}
                /\ param = "Max" => IsMaxOver(summaryDf[s].max_i, df, K)
                /\ param = "Min" => IsMinOver(summaryDf[s].min_i, df, K)
                /\ param = "Mean" =>
                       summaryDf[s].mean_i = WindowMeanOf(df, window, s)

C4_Witness ==
    /\ pc = "returned" /\ param = "Max"
    /\ Cardinality(DOMAIN summaryDf) = 2
    /\ \E k \in DOMAIN df :
           /\ k \notin WindowRowsOf(df, window, df[k].sweep)
           /\ RLt(summaryDf[df[k].sweep].max_i, df[k].i)

(* the p of the rows at the positions K, as numbers                        *)
PValuesOf(d, K) == LET ks == SortSeq(K) IN [j \in DOMAIN ks |-> R(d[ks[j]].p)]

\* C5 (as claimed): the pressure paired with a sweep is the median of p over
\* the rows of the sweep.
C5_PressureIsSweepMedian ==
    pc = "returned" =>
        \A s \in DOMAIN summaryDf :
            summaryDf[s].pressure =
                Median(PValuesOf(df, {k \in DOMAIN df : df[k].sweep = s}))

\* C5 (amended): the pressure paired with a sweep is the absolute value of
\* the median of p over the rows of the sweep inside the window.
C5_PressureIsAbsWindowMedian ==
    pc = "returned" =>
        \A s \in DOMAIN summaryDf :
            summaryDf[s].pressure =
                RAbs(Median(PValuesOf(df, WindowRowsOf(df, window, s))))

C5_Witness ==
    /\ pc = "returned"
    /\ \E s \in DOMAIN summaryDf :
           LET all == Median(PValuesOf(df, {k \in DOMAIN df : df[k].sweep = s}))
               win == Median(PValuesOf(df, WindowRowsOf(df, window, s)))
           IN  /\ win[1] < 0
               /\ all # win
               /\ summaryDf[s].pressure = RAbs(win)

\* C6: for each accepted param and every table in which each sweep has a row
\* inside the window, the call returns a table with exactly one row per sweep.
C6_ReturnsOneRowPerSweep ==
    ( /\ pc # "start"
      /\ param \in {"Max", "Min", "Mean"}
      /\ \A s \in SweepsOf(df) : WindowRowsOf(df, window, s) # {} ) =>
        (pc = "returned" /\ DOMAIN summaryDf = SweepsOf(df))

(* the number the statistic is divided by                                  *)
Divisor ==
    LET col == [s \in DOMAIN summaryDf |-> StatI(s)]
    IN  IF param = "Mean" THEN RMax(AbsValues(col))
        ELSE IF param = "Min" THEN RMin(Values(col))
        ELSE RMax(Values(col))

SomeSweepIsOne == \E s \in DOMAIN summaryDf : NormI(s) = ROne
NoSweepAboveOne == \A s \in DOMAIN summaryDf : RLe(NormI(s), ROne)

\* C7 (as claimed): whenever the divisor is non-zero, some sweep has the
\* normalized value 1 and no sweep has a normalized value above 1, for all
\* three params and every sign of the statistics.
C7_NormalizedToExtreme ==
    (pc = "returned" /\ param \in {"Max", "Min", "Mean"} /\ Divisor # RZero) =>
        (SomeSweepIsOne /\ NoSweepAboveOne)

\* C7 (amended): whenever the divisor is non-zero, some sweep has the
\* normalized value 1; no sweep has a normalized value above 1 for param Mean,
\* for param Min when the divisor (the smallest minimum) is negative, and for
\* param Max when the divisor (the largest maximum) is positive.
C7_NormalizedWhenSignFits ==
    (pc = "returned" /\ param \in {"Max", "Min", "Mean"} /\ Divisor # RZero) =>
        /\ SomeSweepIsOne
        /\ ( \/ param = "Mean"
             \/ (param = "Min" /\ RLt(Divisor, RZero))
             \/ (param = "Max" /\ RLt(RZero, Divisor)) ) => NoSweepAboveOne

C7_Witness ==
    /\ pc = "returned" /\ param = "Min" /\ RLt(Divisor, RZero)
    /\ \E s \in DOMAIN summaryDf : RLt(NormI(s), RZero)
    /\ \E s \in DOMAIN summaryDf : NormI(s) = ROne

----------------------------------------------------------------------------
(* load_file(path).  A text is a sequence of characters, a line break the  *)
(* character "\n".  A number of the file is kept as <<m, e>>, meaning      *)
(* m * 10^e, so that the unit conversions stay exact.                      *)

Lower ==
    {"a", "b", "c", "d", "e", "f", "g", "h", "i", "j", "k", "l", "m", "n",
     "o", "p", "q", "r", "s", "t", "u", "v", "w", "x", "y", "z"}
DigitSeq == <<"0", "1", "2", "3", "4", "5", "6", "7", "8", "9">>
Digits == {DigitSeq[k] : k \in DOMAIN DigitSeq}
DigitVal(c) == (CHOOSE k \in DOMAIN DigitSeq : DigitSeq[k] = c) - 1
Whitespace == {" ", "\n"}

RECURSIVE LStrip(_)
LStrip(t) == IF t # <<>> /\ t[1] \in Whitespace THEN LStrip(Tail(t)) ELSE t

RECURSIVE RStrip(_)
RStrip(t) ==
    IF t # <<>> /\ t[Len(t)] \in Whitespace
    THEN RStrip(SubSeq(t, 1, Len(t) - 1))
    ELSE t

(* str.strip()                                                             *)
Strip(t) == RStrip(LStrip(t))

(* str.split(sep)                                                          *)
RECURSIVE Split(_, _)
Split(t, sep) ==
    IF \A k \in DOMAIN t : t[k] # sep THEN <<t>>
    ELSE LET k == CHOOSE j \in DOMAIN t :
                      t[j] = sep /\ \A h \in 1..(j - 1) : t[h] # sep
         IN  <<SubSeq(t, 1, k - 1)>> \o Split(SubSeq(t, k + 1, Len(t)), sep)

(* rawFile = f.read().strip().split("\n")                                  *)
RawFile(text) == Split(Strip(text), "\n")

(* re.search(r"[a-z]+", line) != None                                      *)
HasLower(line) == \E k \in DOMAIN line : line[k] \in Lower

(* lineIndices: the positions (from 0) of the lines without a lowercase    *)
(* letter, ascending                                                       *)
LineIndices(raw) == SortSeq({k - 1 : k \in {j \in DOMAIN raw : ~HasLower(raw[j])}})

(* rawFile[i].strip().replace(" ", "").split(",")                          *)
Fields(line) == Split(SelectSeq(Strip(line), LAMBDA c : c # " "), ",")

ProcessedFile(raw) ==
    LET idx == LineIndices(raw) IN [k \in DOMAIN idx |-> Fields(raw[idx[k] + 1])]

(* int(x / 2): the quotient truncated towards zero                         *)
IntHalf(x) == IF x >= 0 THEN x \div 2 ELSE -((-x) \div 2)

(* nSweeps = int((len(rawFile)-len(processedFile)-1)/2)                    *)
NSweeps(raw) == IntHalf(Len(raw) - Len(ProcessedFile(raw)) - 1)

ColNames(first) ==
    IF Len(first) = 5 THEN <<"index", "ti", "i", "tp", "p">>
    ELSE <<"index", "ti", "i", "tp", "p", "tv", "v">>

(* pd.DataFrame(columns=colnames, data=processedFile): a row shorter than  *)
(* the widest is filled with None; the widest must have one field per      *)
(* column name.                                                            *)
PadNone == <<"None">>
Widest(proc) == CHOOSE n \in {Len(proc[k]) : k \in DOMAIN proc} :
                    \A k \in DOMAIN proc : Len(proc[k]) <= n
Padded(proc) ==
    [r \in DOMAIN proc |->
        [c \in 1..Widest(proc) |->
            IF c <= Len(proc[r]) THEN proc[r][c] ELSE PadNone]]

(* pd.to_numeric of one cell: a number, nan for None and for the empty     *)
(* string, ValueError for any other text                                   *)
IsNumber(f) ==
    LET body == IF f # <<>> /\ f[1] = "-" THEN Tail(f) ELSE f
    IN  f # PadNone /\ body # <<>> /\ \A k \in DOMAIN body : body[k] \in Digits

RECURSIVE DigitsValue(_)
DigitsValue(b) ==
    IF b = <<>> THEN 0
    ELSE 10 * DigitsValue(SubSeq(b, 1, Len(b) - 1)) + DigitVal(b[Len(b)])

NaNCell == <<>>
ToNumeric(f) ==
    IF ~IsNumber(f) THEN NaNCell
    ELSE IF f[1] = "-" THEN <<-DigitsValue(Tail(f)), 0>>
    ELSE <<DigitsValue(f), 0>>
ToNumericRaises(f) == ~IsNumber(f) /\ f # <<>> /\ f # PadNone

(* df.apply(pd.to_numeric): the rows with the label (position in           *)
(* processedFile, from 0) the DataFrame gives them                         *)
NumericFrame(proc) ==
    LET pad == Padded(proc)
    IN  [r \in DOMAIN pad |->
            [label |-> r - 1,
             cells |-> [c \in DOMAIN pad[r] |-> ToNumeric(pad[r][c])]]]

(* df.dropna(axis=0)                                                       *)
DropNaKeepsAll(frame) == frame
DropNa(frame) ==
    SelectSeq(frame, LAMBDA r : \A c \in DOMAIN r.cells : r.cells[c] # NaNCell)

(* np.repeat(np.arange(nSweeps) + 1, len(df)/nSweeps); the quotient, a     *)
(* float, is truncated to a count                                          *)
SweepColumnTiled(n, len) ==
    LET reps == len \div n IN [k \in 1..(n * reps) |-> ((k - 1) % n) + 1]
SweepColumn(n, len) ==
    LET reps == len \div n IN [k \in 1..(n * reps) |-> ((k - 1) \div reps) + 1]

(* p / 0.02, ti * 1000, i * 1e12, tp * 1000                                *)
Converted(col, v) ==
    IF v = NaNCell THEN NaNCell
    ELSE IF col = "p" THEN <<v[1] * 5, v[2] + 1>>
    ELSE IF col \in {"ti", "tp"} THEN <<v[1], v[2] + 3>>
    ELSE IF col = "i" THEN <<v[1], v[2] + 12>>
    ELSE v

ColPos(cols, c) == CHOOSE k \in DOMAIN cols : cols[k] = c

Raised(what) == [status |-> what, rows |-> <<>>]

LoadFile(text) ==
    LET raw == RawFile(text)
        proc == ProcessedFile(raw)
        nSweeps == NSweeps(raw)
    IN  IF proc = <<>> THEN Raised("IndexError")
        ELSE
        LET cols == ColNames(proc[1])
        IN  IF Widest(proc) # Len(cols) THEN Raised("ValueError")
            ELSE IF \E r \in DOMAIN proc : \E c \in DOMAIN proc[r] :
                        ToNumericRaises(proc[r][c])
            THEN Raised("ValueError")
            ELSE
            LET kept == DropNa(NumericFrame(proc))
            IN  IF nSweeps = 0 THEN Raised("ZeroDivisionError")
                ELSE
                LET sweep == SweepColumn(nSweeps, Len(kept))
                IN  IF Len(sweep) # Len(kept) THEN Raised("ValueError")
                    ELSE
                    [status |-> "ok",
                     rows |->
                        [k \in DOMAIN kept |->
                            [c \in {cols[j] : j \in DOMAIN cols}
                                      \cup {"label", "sweep"} |->
                                IF c = "label" THEN kept[k].label
                                ELSE IF c = "sweep" THEN sweep[k]
                                ELSE Converted(c, kept[k].cells[ColPos(cols, c)])]]]

(* The inputs.                                                             *)
HeaderLine == <<"S", "w", "e", "e", "p">>
TitleLine == <<"I", "n", "d", "e", "x">>
DataLineA == <<"1", ",", "2", ",", "3", ",", "4", ",", "5">>
DataLineB == <<" ", "7", ",", " ", "1", "0", ",", "-", "3", ",", "1", "0", ",", "-", "2", " ">>
ShortLine == <<"1", ",", "2", ",", "3">>
BlankLine == <<>>
GapLine == <<"1", ",", ",", "3", ",", "4", ",", "5">>
WideLine == <<"1", ",", "2", ",", "3", ",", "4", ",", "5", ",", "6", ",", "7">>
UpperLine == <<"A", ",", "2", ",", "3", ",", "4", ",", "5">>

AnyLines ==
    {HeaderLine, DataLineA, ShortLine, BlankLine, GapLine, WideLine, UpperLine}

(* the text of a file with these lines, each ended by a line break         *)
RECURSIVE FileText(_)
FileText(lines) ==
    IF lines = <<>> THEN <<>>
    ELSE lines[1] \o <<"\n">> \o FileText(Tail(lines))

(* An export: one leading header line, then per sweep two header lines and *)
(* the sweep's data lines.                                                 *)
SweepBlock(data) == <<HeaderLine, TitleLine>> \o data
SweepFile(n, per, data) ==
    <<HeaderLine>> \o
        Flatten([k \in 1..n |->
                     SweepBlock([j \in 1..per |-> data[(k - 1) * per + j]])])

InitLoad ==
    /\ pc = "start"
    /\ calls = 0
    /\ df = <<>>
    /\ df0 = <<>>
    /\ window = <<0, 0>>
    /\ param = ""
    /\ summaryDf = <<>>
    /\ \E f \in UNION { [1..n -> AnyLines] : n \in 1..MaxLines } \cup
            UNION { { SweepFile(n, per, data) :
                        data \in [1..(n * per) -> {DataLineA, DataLineB}] } :
                    n \in 1..MaxSweeps, per \in 1..MaxSamples } :
          path = FileText(f)
    /\ loaded = <<>>
    /\ nbins = 0
    /\ ngauss = 0
    /\ fit = <<>>

CallLoadFileReturns ==
    /\ pc = "start"
    /\ LoadFile(path).status = "ok"
    /\ loaded' = LoadFile(path).rows
    /\ pc' = "returned"
    /\ calls' = calls + 1
    /\ UNCHANGED <<df, df0, window, param, summaryDf, path, histVars>>

CallLoadFileRaises ==
    /\ pc = "start"
    /\ LoadFile(path).status # "ok"
    /\ pc' = LoadFile(path).status
    /\ calls' = calls + 1
    /\ UNCHANGED <<df, df0, window, param, summaryDf, path, loaded, histVars>>

NextLoad == CallLoadFileReturns \/ CallLoadFileRaises

SpecLoad == InitLoad /\ [][NextLoad]_vars

----------------------------------------------------------------------------
(* What the claims say of load_file.                                       *)

(* the lines of the file, and the line (from 1) each returned row is from  *)
Raw == RawFile(path)
RowLines ==
    [k \in DOMAIN loaded |-> LineIndices(Raw)[loaded[k]["label"] + 1] + 1]

AllNumeric(line) == \A c \in DOMAIN Fields(line) : IsNumber(Fields(line)[c])

(* the number of columns of the table                                      *)
NumCols ==
    LET first == CHOOSE l \in DOMAIN Raw :
                     ~HasLower(Raw[l]) /\ \A h \in 1..(l - 1) : HasLower(Raw[h])
    IN  IF Len(Fields(Raw[first])) = 5 THEN 5 ELSE 7

\* C1 (as claimed): no line with a lowercase letter contributes a row, every
\* other line whose fields are all numeric contributes exactly one row, and
\* the rows are in the order of the lines.
C1_NumericLinesKept ==
    pc = "returned" =>
        RowLines = SortSeq({l \in DOMAIN Raw : ~HasLower(Raw[l]) /\ AllNumeric(Raw[l])})

\* C1 (amended): no line with a lowercase letter contributes a row, every
\* other line whose fields are all numeric and as many as the table has
\* columns contributes exactly one row, and the rows are in the order of the
\* lines.
C1_FullNumericLinesKept ==
    pc = "returned" =>
        RowLines = SortSeq({l \in DOMAIN Raw :
                               /\ ~HasLower(Raw[l])
                               /\ AllNumeric(Raw[l])
                               /\ Len(Fields(Raw[l])) = NumCols})

C1_Witness ==
    /\ pc = "returned"
    /\ Len(loaded) = 1
    /\ \E l \in DOMAIN Raw : l > RowLines[1] /\ HasLower(Raw[l])
    /\ \E l \in DOMAIN Raw :
           ~HasLower(Raw[l]) /\ AllNumeric(Raw[l]) /\ Len(Fields(Raw[l])) # NumCols

(* a file of one header line, then n sweeps of two header lines and per    *)
(* data lines each                                                         *)
IsDataLine(line, w) ==
    ~HasLower(line) /\ AllNumeric(line) /\ Len(Fields(line)) = w
IsSweepFile(raw, n, per) ==
    /\ Len(raw) = 1 + n * (2 + per)
    /\ \E w \in {5, 7} :
        \A l \in DOMAIN raw :
            IF l = 1 \/ (l - 2) % (2 + per) < 2
            THEN HasLower(raw[l])
            ELSE IsDataLine(raw[l], w)

SweepOfLine(l, per) == ((l - 2) \div (2 + per)) + 1

\* C2: for a file of one header line followed by N sweeps of two header
\* lines and S data lines each, the table has N*S rows, every row from the
\* k-th sweep has sweep = k, the sweep column is non-decreasing and each of
\* 1..N occurs exactly S times.
C2_SweepLabels ==
    \A n \in 1..MaxSweeps, per \in 1..MaxSamples :
        (pc # "start" /\ IsSweepFile(Raw, n, per)) =>
            /\ pc = "returned"
            /\ Len(loaded) = n * per
            /\ \A k \in DOMAIN loaded :
                   loaded[k]["sweep"] = SweepOfLine(RowLines[k], per)
            /\ \A k \in 1..(Len(loaded) - 1) :
                   loaded[k]["sweep"] <= loaded[k + 1]["sweep"]
            /\ \A v \in 1..n :
                   Cardinality({k \in DOMAIN loaded : loaded[k]["sweep"] = v}) = per

C2_Witness ==
    /\ pc = "returned"
    /\ IsSweepFile(Raw, 2, 2)
    /\ loaded[2]["sweep"] = 1
    /\ loaded[3]["sweep"] = 2

----------------------------------------------------------------------------
(* frequency_histogram(df, nbins, ngauss): the histogram, the initial      *)
(* guesses and the model handed to curve_fit.  The optimisation itself is  *)
(* not modelled: it ends with fitted parameters or without convergence.    *)

(* np.histogram(df.i, nbins, density=True): the nbins + 1 edges x, from    *)
(* the smallest to the largest value (half a unit to either side of a      *)
(* single value), and the densities y                                      *)
HistLow(v) == IF RMin(v) = RMax(v) THEN RSub(RMin(v), <<1, 2>>) ELSE RMin(v)
HistHigh(v) == IF RMin(v) = RMax(v) THEN RAdd(RMax(v), <<1, 2>>) ELSE RMax(v)
HistEdges(v, nb) ==
    [k \in 1..(nb + 1) |->
        RAdd(HistLow(v),
             RDiv(RMul(R(k - 1), RSub(HistHigh(v), HistLow(v))), R(nb)))]
InBin(x, e, k, nb) ==
    /\ RLe(e[k], x)
    /\ IF k = nb THEN RLe(x, e[k + 1]) ELSE RLt(x, e[k + 1])
HistDensity(v, e, nb) ==
    [k \in 1..nb |->
        RDiv(R(Cardinality({j \in DOMAIN v : InBin(v[j], e, k, nb)})),
             RMul(R(Len(v)), RSub(e[k + 1], e[k])))]

(* np.argmax(y), as a position from 1: the first largest element           *)
ArgMax(y) ==
    CHOOSE k \in DOMAIN y :
        /\ \A j \in DOMAIN y : RLe(y[j], y[k])
        /\ \A j \in 1..(k - 1) : RLt(y[j], y[k])

(* ngauss_guesses(x, y, nGauss): the lists p, u and s, one element to      *)
(* start with and one more for each i in range(0, nGauss - 1)              *)
RECURSIVE GuessP(_)
GuessP(n) ==
    IF n <= 1 THEN <<ROne>>
    ELSE LET g == GuessP(n - 1) IN Append(g, RMul(<<1, 2>>, g[n - 1]))

RECURSIVE GuessU(_, _)
GuessU(u0, n) ==
    IF n <= 1 THEN <<u0>>
    ELSE LET g == GuessU(u0, n - 1)
         IN  Append(g, RAdd(RMul(<<-11, 5>>, R(n - 1)), g[n - 1]))

RECURSIVE GuessS(_)
GuessS(n) ==
    IF n <= 1 THEN << <<1, 2>> >>
    ELSE LET g == GuessS(n - 1) IN Append(g, RMul(R(2), g[n - 1]))

NgaussGuesses(x, y, n) == <<GuessP(n), GuessU(x[ArgMax(y)], n), GuessS(n)>>

(* The parameters of the fitted functions after x, in order.               *)
DoubleGaussParams == <<"a1", "a2", "m1", "m2", "s1", "s2">>
TripleGaussParams == <<"a1", "a2", "a3", "m1", "m2", "m3", "s1", "s2", "s3">>

(* if ngauss == 3: triple_gauss_fit, else: double_gauss_fit                *)
FitModel(n) == IF n = 3 THEN "triple_gauss_fit" ELSE "double_gauss_fit"
ParamsOf(model) ==
    IF model = "triple_gauss_fit" THEN TripleGaussParams ELSE DoubleGaussParams

(* curve_fit flattens p0, the list of the three arrays, row by row; each   *)
(* entry is kept with the list it comes from                               *)
GuessNames == <<"p", "u", "s">>
FlatP0Interleaved(arr) ==
    LET n == Len(arr[1])
    IN  [k \in 1..(3 * n) |->
            [from |-> GuessNames[((k - 1) % 3) + 1],
             value |-> arr[((k - 1) % 3) + 1][((k - 1) \div 3) + 1]]]
FlatP0(arr) ==
    LET n == Len(arr[1])
    IN  [k \in 1..(3 * n) |->
            [from |-> GuessNames[((k - 1) \div n) + 1],
             value |-> arr[((k - 1) \div n) + 1][((k - 1) % n) + 1]]]

(* what frequency_histogram hands to curve_fit, given the values of df.i, *)
(* the edges x and the densities y                                         *)
FitOf(v, x, y, nb, n) ==
    LET bin_width == RDiv(RSub(RMax(v), RMin(v)), R(nb))
    IN  [model |-> FitModel(n),
         xdata |-> [k \in 1..nb |-> RAdd(x[k], RMul(<<1, 2>>, bin_width))],
         ydata |-> y,
         p0 |-> FlatP0(NgaussGuesses(x, y, n))]

FitInput(d, nb, n) ==
    CHOOSE f \in UNION { UNION { { FitOf(v, x, y, nb, n) :
                                     y \in {HistDensity(v, x, nb)} } :
                                 x \in {HistEdges(v, nb)} } :
                         v \in {Column(d, "i")} } : TRUE

(* curve_fit raises TypeError when the model does not take as many         *)
(* parameters as p0 holds, or when there are more parameters than bins     *)
CurveFitTypeError(f) ==
    \/ Len(f.p0) # Len(ParamsOf(f.model))
    \/ Len(f.p0) > Len(f.ydata)

HistRows ==
    { [sweep |-> 1, ti |-> t, tp |-> t, i |-> R(v), p |-> 0] :
        t \in {0}, v \in {0, 1, 3} }
HistBins == {1, 6, MaxBins}

InitHist ==
    /\ pc = "start"
    /\ calls = 0
    /\ df \in UNION { [1..n -> HistRows] : n \in 1..MaxRows }
    /\ df0 = df
    /\ window = <<0, 0>>
    /\ param = ""
    /\ summaryDf = <<>>
    /\ path = <<>>
    /\ loaded = <<>>
    /\ nbins = 0
    /\ ngauss = 0
    /\ fit = <<>>

CallHistogram(f, nb, n, outcome) ==
    /\ pc = "start"
    /\ nbins' = nb
    /\ ngauss' = n
    /\ fit' = f
    /\ pc' = outcome
    /\ calls' = calls + 1
    /\ UNCHANGED <<df, df0, window, param, summaryDf, loadVars>>

CallHistogramTypeError(nb, n) ==
    \E f \in {FitInput(df, nb, n)} :
        /\ CurveFitTypeError(f)
        /\ CallHistogram(f, nb, n, "TypeError")

CallHistogramFitted(nb, n) ==
    \E f \in {FitInput(df, nb, n)} :
        /\ ~CurveFitTypeError(f)
        /\ CallHistogram(f, nb, n, "fitted")

CallHistogramNotConverged(nb, n) ==
    \E f \in {FitInput(df, nb, n)} :
        /\ ~CurveFitTypeError(f)
        /\ CallHistogram(f, nb, n, "RuntimeError")

NextHist ==
    \E nb \in HistBins, n \in 1..MaxGauss :
        \/ CallHistogramTypeError(nb, n)
        \/ CallHistogramFitted(nb, n)
        \/ CallHistogramNotConverged(nb, n)

SpecHist == InitHist /\ [][NextHist]_vars

----------------------------------------------------------------------------
(* What the claims say of frequency_histogram.                             *)

(* the guess list a parameter of the model is started from                 *)
GuessFor(name) ==
    IF name \in {"a1", "a2", "a3"} THEN "p"
    ELSE IF name \in {"m1", "m2", "m3"} THEN "u"
    ELSE "s"

GuessesMatchModel ==
    /\ Len(ParamsOf(fit.model)) = 3 * ngauss
    /\ Len(fit.p0) = Len(ParamsOf(fit.model))
    /\ \A k \in DOMAIN fit.p0 : fit.p0[k].from = GuessFor(ParamsOf(fit.model)[k])

\* C8 (as claimed): the fitted model has ngauss components, and the initial
\* guesses match its parameters in number (three per component) and in
\* position (amplitudes, then means, then standard deviations), for every
\* ngauss.
C8_GuessesMatchForEveryNgauss == pc # "start" => GuessesMatchModel

\* C8 (amended): the same, for ngauss 2 and ngauss 3.
C8_GuessesMatchForTwoOrThree ==
    (pc # "start" /\ ngauss \in {2, 3}) => GuessesMatchModel

C8_Witness ==
    /\ pc = "fitted"
    /\ ngauss = 3
    /\ fit.model = "triple_gauss_fit"
    /\ fit.p0[4].from = "u" /\ fit.p0[5].value # fit.p0[4].value

====
